---- MODULE Spec2Model ----
(***************************************************************************)
(* protoc-gen-go-ttrpc: the generator that turns a service descriptor into *)
(* ttrpc server and client bindings (generator.go), together with the      *)
(* behaviour of the bodies it emits.                                       *)
(*                                                                         *)
(* Identifiers are sequences of one-character strings, so that             *)
(* strings.ToLower, clientType[:1] and protogen's GoCamelCase are computed *)
(* character by character.  The fixed words the generator appends          *)
(* ("Service", "Server", "Client", ...) are single elements: no descriptor *)
(* name of the model contains their letters.                               *)
(***************************************************************************)
EXTENDS Integers, Sequences, FiniteSets, TLC

VARIABLES input, out, rt

vars == <<input, out, rt>>

\* ------------------------------------------------------------------ bounds

\* methods in one input file, over all its services
MaxMethods == 3
\* operations a caller performs on one client stream
MaxOps == 3

\* ------------------------------------------------------------- characters

LowerLetters == <<"a", "b", "c", "d">>
UpperLetters == <<"A", "B", "C", "D">>

IsLower(c) == \E i \in 1..Len(LowerLetters) : LowerLetters[i] = c
IsUpper(c) == \E i \in 1..Len(UpperLetters) : UpperLetters[i] = c

ToUpperCh(c) ==
    IF IsLower(c)
    THEN UpperLetters[CHOOSE i \in 1..Len(LowerLetters) : LowerLetters[i] = c]
    ELSE c

ToLowerCh(c) ==
    IF IsUpper(c)
    THEN LowerLetters[CHOOSE i \in 1..Len(UpperLetters) : UpperLetters[i] = c]
    ELSE c

\* strings.ToLower
ToLower(s) == [i \in 1..Len(s) |-> ToLowerCh(s[i])]

\* strings.ToLower(s[:1]) + s[1:]
LowerFirst(s) == <<ToLowerCh(s[1])>> \o SubSeq(s, 2, Len(s))

\* the inner loop of GoCamelCase: the lower-case run that follows position i
RECURSIVE LowerRunEnd(_, _)
LowerRunEnd(s, i) ==
    IF i + 1 <= Len(s) /\ IsLower(s[i + 1]) THEN LowerRunEnd(s, i + 1) ELSE i

\* the outer loop of GoCamelCase from position i (names hold no '.' or digit)
RECURSIVE CamelFrom(_, _)
CamelFrom(s, i) ==
    IF i > Len(s) THEN <<>>
    ELSE IF s[i] = "_" /\ i = 1 THEN <<"X">> \o CamelFrom(s, i + 1)
    ELSE IF s[i] = "_" /\ i + 1 <= Len(s) /\ IsLower(s[i + 1]) THEN CamelFrom(s, i + 1)
    ELSE LET j == LowerRunEnd(s, i)
         IN  <<ToUpperCh(s[i])>> \o SubSeq(s, i + 1, j) \o CamelFrom(s, j + 1)

\* protogen: GoName = strs.GoCamelCase(string(desc.Name()))
GoCamelCase(s) == CamelFrom(s, 1)

GoName(desc) == GoCamelCase(desc.name)

\* ------------------------------------------------------------ descriptors

\* descriptor names of services (distinct within a file) and of methods
\* (distinct within a service), as the descriptor compiler delivers them
SvcNames == { <<"A">>, <<"a", "B">> }
MethNames == { <<"B">>, <<"b">>, <<"c", "_", "d">> }

Package == <<"p">>

MethodDescs ==
    [name : MethNames, input : {<<"Req">>}, output : {<<"Resp">>},
     cs : BOOLEAN, ss : BOOLEAN]

RECURSIVE SeqsUpTo(_, _)
SeqsUpTo(S, n) ==
    IF n = 0 THEN {<<>>}
    ELSE LET shorter == SeqsUpTo(S, n - 1)
         IN  shorter \cup {Append(q, x) : q \in {p \in shorter : Len(p) = n - 1}, x \in S}

DistinctNames(q) == \A i, j \in 1..Len(q) : i # j => q[i].name # q[j].name

MethodLists == {q \in SeqsUpTo(MethodDescs, MaxMethods) : DistinctNames(q)}

\* the methods of all services of a file
RECURSIVE CountMethods(_)
CountMethods(file) ==
    IF file = <<>> THEN 0 ELSE Len(Head(file).methods) + CountMethods(Tail(file))

\* service.Desc.FullName()
FullName(service) == Package \o <<".">> \o service.name

\* method.Desc.IsStreamingClient() || method.Desc.IsStreamingServer()
IsStreaming(m) == m.cs \/ m.ss

\* the indices of service.Methods whose streaming-ness is `streaming`, in order
RECURSIVE PickIdx(_, _, _)
PickIdx(service, streaming, i) ==
    IF i > Len(service.methods) THEN <<>>
    ELSE (IF IsStreaming(service.methods[i]) = streaming THEN <<i>> ELSE <<>>)
         \o PickIdx(service, streaming, i + 1)

\* var streams []*protogen.Method, as filled by the service-interface loop
streams(service) == PickIdx(service, TRUE, 1)

\* var methods []*protogen.Method, as filled by the service-interface loop
methods(service) == PickIdx(service, FALSE, 1)

\* ---------------------------------------------------------------- types

Ctx == [kind |-> "named", name |-> <<"context", ".", "Context">>]
Err == [kind |-> "named", name |-> <<"error">>]
Ptr(ident) == [kind |-> "ptr", name |-> ident]
Named(ident) == [kind |-> "named", name |-> ident]

\* ------------------------------------------------- genService: server side

\* serviceName := service.GoName + "Service"
ServiceName(service) == GoName(service) \o <<"Service">>

\* service.GoName + "_" + method.GoName + "Server"
ServerIntName(service, m) == GoName(service) \o <<"_">> \o GoName(m) \o <<"Server">>

\* structName := strings.ToLower(service.GoName) + method.GoName + "Server"
ServerStructName(service, m) == ToLower(GoName(service)) \o GoName(m) \o <<"Server">>

\* sendArgs of one service-interface method
SendArgs(service, m) ==
    IF m.cs \/ m.ss
    THEN IF ~m.cs
         THEN <<Ptr(m.input), Named(ServerIntName(service, m))>>
         ELSE <<Named(ServerIntName(service, m))>>
    ELSE <<Ptr(m.input)>>

\* RetArgs with the return form chosen by the client flag
RetArgs_ByClientFlag(m) ==
    IF m.cs \/ m.ss
    THEN IF m.cs THEN <<Err>> ELSE <<Ptr(m.output), Err>>
    ELSE <<Ptr(m.output), Err>>

\* retArgs of one service-interface method
RetArgs(m) ==
    IF m.cs \/ m.ss
    THEN IF m.ss THEN <<Err>> ELSE <<Ptr(m.output), Err>>
    ELSE <<Ptr(m.output), Err>>

\* type <serviceName> interface { ... }: one line per method of service.Methods
ServiceInterface(service) ==
    [name |-> ServiceName(service),
     methods |-> [i \in 1..Len(service.methods) |->
                    [name |-> GoName(service.methods[i]),
                     src |-> i,
                     params |-> <<Ctx>> \o SendArgs(service, service.methods[i]),
                     results |-> RetArgs(service.methods[i])]]]

\* ServerStreamCaps with the two flags exchanged
ServerStreamCaps_Swapped(m) ==
    (IF m.cs THEN {"Send"} ELSE {}) \cup (IF m.ss THEN {"Recv"} ELSE {})

\* the methods listed in type <Service>_<Method>Server interface
ServerStreamCaps(m) ==
    (IF m.ss THEN {"Send"} ELSE {}) \cup (IF m.cs THEN {"Recv"} ELSE {})

\* the methods defined on the server wrapper struct
ServerWrapperMethods(m) ==
    (IF m.ss THEN {"Send"} ELSE {}) \cup (IF m.cs THEN {"Recv"} ELSE {})

\* for _, method := range streams: the server-stream interfaces
ServerStreamInterfaces(service) ==
    [k \in 1..Len(streams(service)) |->
        LET i == streams(service)[k]
        IN  [name |-> ServerIntName(service, service.methods[i]),
             src |-> i,
             caps |-> ServerStreamCaps(service.methods[i]),
             embeds |-> <<"ttrpc", ".", "StreamServer">>]]

\* for _, method := range streams: the server wrapper structs
ServerWrappers(service) ==
    [k \in 1..Len(streams(service)) |->
        LET i == streams(service)[k]
        IN  [name |-> ServerStructName(service, service.methods[i]),
             src |-> i,
             caps |-> ServerWrapperMethods(service.methods[i]),
             embeds |-> <<"ttrpc", ".", "StreamServer">>]]

\* one entry of the Methods map: key and closure
UnaryEntry(service, i) ==
    LET m == service.methods[i]
    IN  [key |-> GoName(m), src |-> i, invoke |-> GoName(m)]

\* StreamEntry whose Handler receives first when the method is client-streaming
StreamEntry_RecvWhenClientStreams(service, i) ==
    LET m == service.methods[i]
    IN  [key |-> GoName(m),
         src |-> i,
         recvFirst |-> m.cs,
         wrapper |-> ServerStructName(service, m),
         errOnly |-> m.ss,
         invoke |-> GoName(m),
         StreamingClient |-> m.cs,
         StreamingServer |-> m.ss]

\* one entry of the Streams map: key, Handler closure and the two flags
StreamEntry(service, i) ==
    LET m == service.methods[i]
    IN  [key |-> GoName(m),
         src |-> i,
         recvFirst |-> ~m.cs,
         wrapper |-> ServerStructName(service, m),
         errOnly |-> m.ss,
         invoke |-> GoName(m),
         StreamingClient |-> m.cs,
         StreamingServer |-> m.ss]

\* func Register<serviceName>: srv.RegisterService(fullName, &ServiceDesc{...})
Registration(service) ==
    [func |-> <<"Register">> \o ServiceName(service),
     calls |-> <<[key |-> FullName(service),
                  Methods |-> [k \in 1..Len(methods(service)) |->
                                 UnaryEntry(service, methods(service)[k])],
                  Streams |-> [k \in 1..Len(streams(service)) |->
                                 StreamEntry(service, streams(service)[k])]]>>]

\* ------------------------------------------------- genService: client side

\* clientType := service.GoName + "Client"
ClientType(service) == GoName(service) \o <<"Client">>

\* ClientInterfaceName that never falls back to the service interface
ClientInterfaceName_Always(service) == ClientType(service)

\* clientInterface: serviceName, or clientType when len(streams) > 0
ClientInterfaceName(service) ==
    IF Len(streams(service)) > 0 THEN ClientType(service) ELSE ServiceName(service)

\* intName := service.GoName + "_" + method.GoName + "Client"
ClientIntName(service, m) == GoName(service) \o <<"_">> \o GoName(m) \o <<"Client">>

\* structName := strings.ToLower(service.GoName) + method.GoName + "Client"
ClientStructName(service, m) == ToLower(GoName(service)) \o GoName(m) \o <<"Client">>

\* clientStructType := strings.ToLower(clientType[:1]) + clientType[1:]
ClientStructType(service) == LowerFirst(ClientType(service))

\* one line of the distinct client interface
ClientInterfaceMethod(service, i) ==
    LET m == service.methods[i]
    IN  IF m.cs \/ m.ss
        THEN [name |-> GoName(m),
              src |-> i,
              params |-> <<Ctx>> \o (IF ~m.cs THEN <<Ptr(m.input)>> ELSE <<>>),
              results |-> <<Named(ClientIntName(service, m)), Err>>]
        ELSE [name |-> GoName(m),
              src |-> i,
              params |-> <<Ctx, Ptr(m.input)>>,
              results |-> <<Ptr(m.output), Err>>]

\* if len(streams) > 0 { type <clientType> interface { ... } }
\* (the loop appends every method to streams or methods a second time; neither
\* list is read again after it)
ClientInterfaces(service) ==
    IF Len(streams(service)) > 0
    THEN <<[name |-> ClientType(service),
            methods |-> [i \in 1..Len(service.methods) |->
                           ClientInterfaceMethod(service, i)]]>>
    ELSE <<>>

\* func New<clientType>(client *ttrpc.Client) <clientInterface>
Constructor(service) ==
    [name |-> <<"New">> \o ClientType(service),
     returns |-> ClientInterfaceName(service),
     builds |-> ClientStructType(service)]

\* the body of one method of the client struct: the transport call it makes
ClientBody(service, m) ==
    IF m.cs \/ m.ss
    THEN [call |-> "NewStream",
          service |-> FullName(service),
          method |-> GoName(m),
          StreamingClient |-> m.cs,
          StreamingServer |-> m.ss,
          req |-> IF m.cs THEN "nil" ELSE "req",
          wrapper |-> ClientStructName(service, m)]
    ELSE [call |-> "Call",
          service |-> FullName(service),
          method |-> m.name,
          StreamingClient |-> FALSE,
          StreamingServer |-> FALSE,
          req |-> "req",
          wrapper |-> <<>>]

\* func (c *<clientStructType>) <Method>(ctx, ...) (..., error)
ClientMethod(service, i) ==
    LET m == service.methods[i]
    IN  [name |-> GoName(m),
         src |-> i,
         recv |-> ClientStructType(service),
         params |-> <<Ctx>> \o (IF ~m.cs THEN <<Ptr(m.input)>> ELSE <<>>),
         results |-> <<(IF m.cs \/ m.ss THEN Named(ClientIntName(service, m))
                                        ELSE Ptr(m.output)), Err>>,
         body |-> ClientBody(service, m)]

\* the methods listed in type <Service>_<Method>Client interface
ClientStreamCaps(m) ==
    (IF m.cs THEN {"Send"} ELSE {})
    \cup (IF m.ss THEN {"Recv"} ELSE {"CloseAndRecv"})

\* ClientWrapperMethods with Send defined when the method is server-streaming
ClientWrapperMethods_SendIfServer(m) ==
    (IF m.ss THEN {"Send"} ELSE {})
    \cup (IF m.ss THEN {"Recv"} ELSE {"CloseAndRecv"})

\* the methods defined on the client wrapper struct
ClientWrapperMethods(m) ==
    (IF m.cs THEN {"Send"} ELSE {})
    \cup (IF m.ss THEN {"Recv"} ELSE {"CloseAndRecv"})

\* the client-stream interfaces, emitted inside the loop over service.Methods
ClientStreamInterfaces(service) ==
    [k \in 1..Len(PickIdx(service, TRUE, 1)) |->
        LET i == PickIdx(service, TRUE, 1)[k]
        IN  [name |-> ClientIntName(service, service.methods[i]),
             src |-> i,
             caps |-> ClientStreamCaps(service.methods[i]),
             embeds |-> <<"ttrpc", ".", "ClientStream">>]]

\* the client wrapper structs, emitted inside the loop over service.Methods
ClientWrappers(service) ==
    [k \in 1..Len(PickIdx(service, TRUE, 1)) |->
        LET i == PickIdx(service, TRUE, 1)[k]
        IN  [name |-> ClientStructName(service, service.methods[i]),
             src |-> i,
             caps |-> ClientWrapperMethods(service.methods[i]),
             embeds |-> <<"ttrpc", ".", "ClientStream">>]]

\* everything genService writes for one service
GenServiceOut(service) ==
    [iface |-> ServiceInterface(service),
     srvStreamIfaces |-> ServerStreamInterfaces(service),
     srvWrappers |-> ServerWrappers(service),
     register |-> Registration(service),
     clientIfaces |-> ClientInterfaces(service),
     clientStruct |-> ClientStructType(service),
     ctor |-> Constructor(service),
     clientMethods |-> [i \in 1..Len(service.methods) |-> ClientMethod(service, i)],
     cliStreamIfaces |-> ClientStreamInterfaces(service),
     cliWrappers |-> ClientWrappers(service)]

NamesOf(q) == [k \in 1..Len(q) |-> q[k].name]

\* ---------------------------------------------------------------- generate

Idle ==
    [phase |-> "idle", svc |-> 0, m |-> 0, fn |-> "none", calls |-> <<>>,
     ret |-> [val |-> "nil", err |-> "nil"], log |-> <<>>, nops |-> 0]

\* newGenerator(file): nothing generated yet
Init ==
    /\ input = <<>>
    /\ out = <<>>
    /\ rt = Idle

\* one iteration of generate's loop: gen.genService(service)
GenService(service) ==
    /\ CountMethods(input) + Len(service.methods) <= MaxMethods
    /\ \A k \in 1..Len(input) : input[k].name # service.name
    /\ input' = Append(input, service)
    /\ out' = Append(out, GenServiceOut(service))
    /\ UNCHANGED rt

\* the service names the file has not used yet
Unused(file) == {n \in SvcNames : \A k \in 1..Len(file) : file[k].name # n}

NextGen ==
    \E name \in Unused(input) : \E ms \in MethodLists :
        GenService([name |-> name, methods |-> ms])

SpecGen == Init /\ [][NextGen]_vars

\* ------------------------------------------- the emitted bodies, executed

\* a call the emitted code makes on the codec, the transport or the service:
\* what was called, on what, and the value and error that came back
Ev(call, on, val, err) == [call |-> call, on |-> on, val |-> val, err |-> err]

\* what the service implementation hands back to a handler closure
ImplRets(errOnly) ==
    IF errOnly
    THEN {[val |-> "nil", err |-> "nil"], [val |-> "nil", err |-> "errSvc"]}
    ELSE {[val |-> "resp", err |-> "nil"], [val |-> "nil", err |-> "errSvc"],
          [val |-> "resp", err |-> "errSvc"]}

\* return nil, err
Fail(e) == [val |-> "nil", err |-> e]

\* what a callee that ended with err filled in
Got(err, val) == IF err # "nil" THEN "nil" ELSE val

\* UnaryHandlerBody that invokes the service although the decode failed
UnaryHandlerBody_InvokesAnyway(entry, unmarshalErr, implRet) ==
    [calls |-> <<Ev("unmarshal", <<"req">>, Got(unmarshalErr, "req"), unmarshalErr),
                 Ev("svc", entry.invoke, implRet.val, implRet.err)>>,
     ret |-> implRet]

\* the closure of one Methods entry
UnaryHandlerBody(entry, unmarshalErr, implRet) ==
    IF unmarshalErr # "nil"
    THEN [calls |-> <<Ev("unmarshal", <<"req">>, "nil", unmarshalErr)>>,
          ret |-> Fail(unmarshalErr)]
    ELSE [calls |-> <<Ev("unmarshal", <<"req">>, "req", "nil"),
                      Ev("svc", entry.invoke, implRet.val, implRet.err)>>,
          ret |-> implRet]

\* the Handler closure of one Streams entry
StreamHandlerBody(entry, recvErr, implRet) ==
    LET recv == IF entry.recvFirst
                THEN <<Ev("RecvMsg", <<"m">>, Got(recvErr, "m"), recvErr)>>
                ELSE <<>>
    IN  IF entry.recvFirst /\ recvErr # "nil"
        THEN [calls |-> recv, ret |-> Fail(recvErr)]
        ELSE [calls |-> recv \o <<Ev("wrap", entry.wrapper, "x", "nil"),
                                  Ev("svc", entry.invoke, implRet.val, implRet.err)>>,
              ret |-> IF entry.errOnly THEN Fail(implRet.err) ELSE implRet]

\* the body of a unary client method: c.client.Call(ctx, service, method, req, &resp)
ClientCallBody(body, callErr) ==
    [calls |-> <<Ev("Call", body.method, Got(callErr, "resp"), callErr)>>,
     ret |-> IF callErr # "nil" THEN Fail(callErr) ELSE [val |-> "resp", err |-> "nil"]]

\* the body of a streaming client method: c.client.NewStream(ctx, desc, service, method, req)
ClientNewStreamBody(body, openErr) ==
    IF openErr # "nil"
    THEN [calls |-> <<Ev("NewStream", body.method, "nil", openErr)>>,
          ret |-> Fail(openErr)]
    ELSE [calls |-> <<Ev("NewStream", body.method, "stream", "nil"),
                      Ev("wrap", body.wrapper, "x", "nil")>>,
          ret |-> [val |-> "x", err |-> "nil"]]

\* func (x *<structName>) Send(m) error { return x.ClientStream.SendMsg(m) }
ClientSendBody(sendErr) ==
    [calls |-> <<Ev("SendMsg", <<"m">>, "nil", sendErr)>>, ret |-> Fail(sendErr)]

\* func (x *<structName>) Recv() (*Output, error)
ClientRecvBody(recvErr) ==
    [calls |-> <<Ev("RecvMsg", <<"m">>, Got(recvErr, "m"), recvErr)>>,
     ret |-> IF recvErr # "nil" THEN Fail(recvErr) ELSE [val |-> "m", err |-> "nil"]]

\* CloseAndRecvBody that receives although CloseSend failed
CloseAndRecvBody_IgnoresCloseError(closeErr, recvErr) ==
    [calls |-> <<Ev("CloseSend", <<>>, "nil", closeErr),
                 Ev("RecvMsg", <<"m">>, Got(recvErr, "m"), recvErr)>>,
     ret |-> IF recvErr # "nil" THEN Fail(recvErr) ELSE [val |-> "m", err |-> "nil"]]

\* func (x *<structName>) CloseAndRecv() (*Output, error)
CloseAndRecvBody(closeErr, recvErr) ==
    IF closeErr # "nil"
    THEN [calls |-> <<Ev("CloseSend", <<>>, "nil", closeErr)>>, ret |-> Fail(closeErr)]
    ELSE [calls |-> <<Ev("CloseSend", <<>>, "nil", "nil"),
                      Ev("RecvMsg", <<"m">>, Got(recvErr, "m"), recvErr)>>,
          ret |-> IF recvErr # "nil" THEN Fail(recvErr) ELSE [val |-> "m", err |-> "nil"]]

\* the outcomes the codec, the transport and the peer can produce
UnmarshalErrs == {"nil", "errUnmarshal"}
RecvErrs == {"nil", "errRecv"}
SendErrs == {"nil", "errSend"}
CloseErrs == {"nil", "errClose"}
CallErrs == {"nil", "errCall"}
OpenErrs == {"nil", "errOpen"}

Returned(s, i, fn, r) ==
    [phase |-> "returned", svc |-> s, m |-> i, fn |-> fn, calls |-> r.calls,
     ret |-> r.ret, log |-> <<>>, nops |-> 0]

\* the transport dispatches a unary request to entry k of the Methods map
UnaryHandler(s, k) ==
    /\ rt.phase = "idle"
    /\ \E unmarshalErr \in UnmarshalErrs : \E implRet \in ImplRets(FALSE) :
         LET entry == out[s].register.calls[1].Methods[k]
         IN  rt' = Returned(s, entry.src, "UnaryHandler",
                            UnaryHandlerBody(entry, unmarshalErr, implRet))
    /\ UNCHANGED <<input, out>>

\* the transport dispatches a stream to entry k of the Streams map
StreamHandler(s, k) ==
    /\ rt.phase = "idle"
    /\ LET entry == out[s].register.calls[1].Streams[k]
       IN  \E recvErr \in RecvErrs : \E implRet \in ImplRets(entry.errOnly) :
             rt' = Returned(s, entry.src, "StreamHandler",
                            StreamHandlerBody(entry, recvErr, implRet))
    /\ UNCHANGED <<input, out>>

\* a caller invokes method i of the client struct, a unary one
ClientCall(s, i) ==
    /\ rt.phase = "idle"
    /\ out[s].clientMethods[i].body.call = "Call"
    /\ \E callErr \in CallErrs :
         rt' = Returned(s, i, "ClientCall",
                        ClientCallBody(out[s].clientMethods[i].body, callErr))
    /\ UNCHANGED <<input, out>>

\* a caller invokes method i of the client struct, a streaming one
ClientNewStream(s, i) ==
    /\ rt.phase = "idle"
    /\ out[s].clientMethods[i].body.call = "NewStream"
    /\ \E openErr \in OpenErrs :
         LET r == ClientNewStreamBody(out[s].clientMethods[i].body, openErr)
         IN  rt' = [Returned(s, i, "ClientNewStream", r)
                      EXCEPT !.phase = IF r.ret.err = "nil" THEN "open" ELSE "returned"]
    /\ UNCHANGED <<input, out>>

\* the wrapper struct the open session's method returned
Wrapper ==
    LET ws == out[rt.svc].cliWrappers
    IN  ws[CHOOSE k \in 1..Len(ws) : ws[k].src = rt.m]

\* one call of a wrapper method on the open stream: its transport calls join the log
StreamOp(fn, r) ==
    [rt EXCEPT !.fn = fn, !.calls = r.calls, !.ret = r.ret, !.nops = rt.nops + 1,
               !.log = rt.log \o [j \in 1..Len(r.calls) |->
                                    [op |-> rt.nops + 1, fn |-> fn,
                                     call |-> r.calls[j].call, err |-> r.calls[j].err]]]

ClientSend ==
    /\ rt.phase = "open"
    /\ rt.nops < MaxOps
    /\ "Send" \in Wrapper.caps
    /\ \E sendErr \in SendErrs : rt' = StreamOp("Send", ClientSendBody(sendErr))
    /\ UNCHANGED <<input, out>>

ClientRecv ==
    /\ rt.phase = "open"
    /\ rt.nops < MaxOps
    /\ "Recv" \in Wrapper.caps
    /\ \E recvErr \in RecvErrs : rt' = StreamOp("Recv", ClientRecvBody(recvErr))
    /\ UNCHANGED <<input, out>>

ClientCloseAndRecv ==
    /\ rt.phase = "open"
    /\ rt.nops < MaxOps
    /\ "CloseAndRecv" \in Wrapper.caps
    /\ \E closeErr \in CloseErrs : \E recvErr \in RecvErrs :
         rt' = StreamOp("CloseAndRecv", CloseAndRecvBody(closeErr, recvErr))
    /\ UNCHANGED <<input, out>>

\* the bindings of one service with one method have been generated and built;
\* an emitted body reads nothing but its own method's descriptor
InitRun ==
    /\ \E name \in SvcNames : \E m \in MethodDescs :
         /\ input = <<[name |-> name, methods |-> <<m>>]>>
         /\ out = <<GenServiceOut([name |-> name, methods |-> <<m>>])>>
    /\ rt = Idle

NextRun ==
    \/ \E s \in 1..Len(out) : \E k \in 1..Len(out[s].register.calls[1].Methods) :
         UnaryHandler(s, k)
    \/ \E s \in 1..Len(out) : \E k \in 1..Len(out[s].register.calls[1].Streams) :
         StreamHandler(s, k)
    \/ \E s \in 1..Len(out) : \E i \in 1..Len(out[s].clientMethods) : ClientCall(s, i)
    \/ \E s \in 1..Len(out) : \E i \in 1..Len(out[s].clientMethods) : ClientNewStream(s, i)
    \/ ClientSend
    \/ ClientRecv
    \/ ClientCloseAndRecv

SpecRun == InitRun /\ [][NextRun]_vars

\* ------------------------------------------------ claims on the generator

\* the positions of q whose artifact was emitted for method i
WithSrc(q, i) == {k \in 1..Len(q) : q[k].src = i}

\* q holds exactly one artifact for method i, and it exposes exactly caps
ExposesExactly(q, i, caps) ==
    /\ Cardinality(WithSrc(q, i)) = 1
    /\ \A k \in WithSrc(q, i) : q[k].caps = caps

\* C1: a streaming method's server-stream interface and wrapper expose Send iff
\* serverStreaming and Recv iff clientStreaming; its client-stream interface and
\* wrapper expose Send iff clientStreaming, Recv iff serverStreaming and
\* CloseAndRecv iff not serverStreaming; a unary method gets none of the four.
C1_StreamCapabilities ==
    \A s \in 1..Len(out) : \A i \in 1..Len(input[s].methods) :
        LET m == input[s].methods[i]
            o == out[s]
            server == {c \in {"Send", "Recv"} :
                         \/ c = "Send" /\ m.ss
                         \/ c = "Recv" /\ m.cs}
            client == {c \in {"Send", "Recv", "CloseAndRecv"} :
                         \/ c = "Send" /\ m.cs
                         \/ c = "Recv" /\ m.ss
                         \/ c = "CloseAndRecv" /\ ~m.ss}
        IN  IF m.cs \/ m.ss
            THEN /\ ExposesExactly(o.srvStreamIfaces, i, server)
                 /\ ExposesExactly(o.srvWrappers, i, server)
                 /\ ExposesExactly(o.cliStreamIfaces, i, client)
                 /\ ExposesExactly(o.cliWrappers, i, client)
            ELSE /\ WithSrc(o.srvStreamIfaces, i) = {}
                 /\ WithSrc(o.srvWrappers, i) = {}
                 /\ WithSrc(o.cliStreamIfaces, i) = {}
                 /\ WithSrc(o.cliWrappers, i) = {}

\* a service with a unary method, a client-streaming one and a server-streaming one
C1_Witness ==
    \E s \in 1..Len(out) : \E i, j, k \in 1..Len(input[s].methods) :
        /\ ~input[s].methods[i].cs /\ ~input[s].methods[i].ss
        /\ input[s].methods[j].cs /\ ~input[s].methods[j].ss
        /\ ~input[s].methods[k].cs /\ input[s].methods[k].ss
        /\ \E w \in WithSrc(out[s].cliWrappers, j) :
              "CloseAndRecv" \in out[s].cliWrappers[w].caps

\* the registration table's entries for method i, in the Methods and the Streams map
UnaryKeys(o, i) ==
    {o.register.calls[1].Methods[k].key : k \in WithSrc(o.register.calls[1].Methods, i)}
StreamKeys(o, i) ==
    {o.register.calls[1].Streams[k].key : k \in WithSrc(o.register.calls[1].Streams, i)}

\* the keys of the whole table, one element per entry
TableKeys(o) ==
    NamesOf([k \in 1..Len(o.register.calls[1].Methods) |->
               [name |-> o.register.calls[1].Methods[k].key]])
    \o NamesOf([k \in 1..Len(o.register.calls[1].Streams) |->
                  [name |-> o.register.calls[1].Streams[k].key]])

PairwiseDistinct(q) == \A a, b \in 1..Len(q) : a # b => q[a] # q[b]

\* C2: the registration function makes one RegisterService call keyed by the
\* fully-qualified service name; its table holds exactly one entry per method,
\* keyed by the method's local name, a unary method in Methods only and a
\* streaming method in Streams only, and no two methods share a key.
C2_RegistrationTable ==
    \A s \in 1..Len(out) :
        LET o == out[s]
            table == o.register.calls[1]
        IN  /\ Len(o.register.calls) = 1
            /\ table.key = FullName(input[s])
            /\ Len(table.Methods) + Len(table.Streams) = Len(input[s].methods)
            /\ PairwiseDistinct(TableKeys(o))
            /\ \A i \in 1..Len(input[s].methods) :
                 LET m == input[s].methods[i]
                 IN  IF m.cs \/ m.ss
                     THEN /\ Cardinality(WithSrc(table.Streams, i)) = 1
                          /\ WithSrc(table.Methods, i) = {}
                          /\ StreamKeys(o, i) = {m.name}
                     ELSE /\ Cardinality(WithSrc(table.Methods, i)) = 1
                          /\ WithSrc(table.Streams, i) = {}
                          /\ UnaryKeys(o, i) = {m.name}

\* C3: for every method the key the server registration table registers it
\* under is the method's local name and is the method-name argument the client
\* passes to Call or NewStream.
C3_DispatchKeyAgrees ==
    \A s \in 1..Len(out) : \A i \in 1..Len(input[s].methods) :
        LET m == input[s].methods[i]
            serverKeys == UnaryKeys(out[s], i) \cup StreamKeys(out[s], i)
        IN  /\ serverKeys = {m.name}
            /\ serverKeys = {out[s].clientMethods[i].body.method}

\* C4: with no streaming method no client interface is emitted and the
\* constructor returns the service interface; with at least one, one distinct
\* client interface is emitted that lists every method once, a streaming method
\* returning its client-stream handle and a unary method keeping its signature.
C4_ClientInterface ==
    \A s \in 1..Len(out) :
        LET o == out[s]
            ms == input[s].methods
        IN  IF \A i \in 1..Len(ms) : ~ms[i].cs /\ ~ms[i].ss
            THEN /\ o.clientIfaces = <<>>
                 /\ o.ctor.returns = o.iface.name
            ELSE /\ Len(o.clientIfaces) = 1
                 /\ o.clientIfaces[1].name # o.iface.name
                 /\ o.ctor.returns = o.clientIfaces[1].name
                 /\ Len(o.clientIfaces[1].methods) = Len(ms)
                 /\ \A i \in 1..Len(ms) :
                      LET sig == o.clientIfaces[1].methods[i]
                      IN  /\ sig.src = i
                          /\ sig.name = o.iface.methods[i].name
                          /\ IF ms[i].cs \/ ms[i].ss
                             THEN /\ Len(sig.results) = 2
                                  /\ sig.results[2] = Err
                                  /\ \E k \in WithSrc(o.cliStreamIfaces, i) :
                                       sig.results[1] = Named(o.cliStreamIfaces[k].name)
                                  /\ \A a \in 1..Len(sig.params) :
                                       \A k \in 1..Len(o.srvStreamIfaces) :
                                         sig.params[a] # Named(o.srvStreamIfaces[k].name)
                             ELSE /\ sig.params = o.iface.methods[i].params
                                  /\ sig.results = o.iface.methods[i].results
                                  /\ sig.params = <<Ctx, Ptr(ms[i].input)>>
                                  /\ sig.results = <<Ptr(ms[i].output), Err>>

\* a service of unary methods only, and a service that mixes a unary and a
\* streaming method
C4_Witness ==
    /\ \E s \in 1..Len(out) :
         /\ Len(input[s].methods) > 0
         /\ out[s].clientIfaces = <<>>
    /\ \E s \in 1..Len(out) : \E i, j \in 1..Len(input[s].methods) :
         /\ ~input[s].methods[i].cs /\ ~input[s].methods[i].ss
         /\ input[s].methods[j].cs
         /\ Len(out[s].clientIfaces) = 1

\* the shape table of the specification
Shape(cs, ss) ==
    IF cs THEN (IF ss THEN "BIDI_STREAM" ELSE "CLIENT_STREAM")
          ELSE (IF ss THEN "SERVER_STREAM" ELSE "UNARY")

\* C9: the service interface lists every method once, in descriptor order, with
\* the signature its shape gives: UNARY (ctx, *Input) (*Output, error);
\* CLIENT_STREAM (ctx, stream) (*Output, error); SERVER_STREAM
\* (ctx, *Input, stream) error; BIDI_STREAM (ctx, stream) error.
C9_ServiceInterface ==
    \A s \in 1..Len(out) :
        LET o == out[s]
            ms == input[s].methods
        IN  /\ Len(o.iface.methods) = Len(ms)
            /\ \A i \in 1..Len(ms) :
                 LET sig == o.iface.methods[i]
                     shape == Shape(ms[i].cs, ms[i].ss)
                     stream == {Named(o.srvStreamIfaces[k].name) :
                                  k \in WithSrc(o.srvStreamIfaces, i)}
                 IN  /\ sig.src = i
                     /\ sig.name = GoName(ms[i])
                     /\ shape = "UNARY" =>
                          /\ sig.params = <<Ctx, Ptr(ms[i].input)>>
                          /\ sig.results = <<Ptr(ms[i].output), Err>>
                     /\ shape = "CLIENT_STREAM" =>
                          /\ \E st \in stream : sig.params = <<Ctx, st>>
                          /\ sig.results = <<Ptr(ms[i].output), Err>>
                     /\ shape = "SERVER_STREAM" =>
                          /\ \E st \in stream : sig.params = <<Ctx, Ptr(ms[i].input), st>>
                          /\ sig.results = <<Err>>
                     /\ shape = "BIDI_STREAM" =>
                          /\ \E st \in stream : sig.params = <<Ctx, st>>
                          /\ sig.results = <<Err>>

\* a service whose methods have three different shapes
C9_Witness ==
    \E s \in 1..Len(out) : \E i, j, k \in 1..Len(input[s].methods) :
        /\ i < j /\ j < k
        /\ Cardinality({Shape(input[s].methods[x].cs, input[s].methods[x].ss) :
                          x \in {i, j, k}}) = 3
        /\ Len(out[s].iface.methods) = 3

\* the wrapper structs and the client implementation struct of every service
RECURSIVE StructDecls(_)
StructDecls(file) ==
    IF file = <<>> THEN <<>>
    ELSE NamesOf(Head(file).srvWrappers) \o NamesOf(Head(file).cliWrappers)
         \o <<Head(file).clientStruct>> \o StructDecls(Tail(file))

\* C10: in one output file no stream wrapper struct name equals the wrapper
\* struct name of another method or service, nor any service's client
\* implementation struct name.
C10_StructNamesDistinct == PairwiseDistinct(StructDecls(out))

\* -------------------------------------------- claims on the emitted bodies

\* the method descriptor the last executed body belongs to
RtMethod == input[rt.svc].methods[rt.m]

\* the positions of rt.calls that call `call`
CallsOf(call) == {j \in 1..Len(rt.calls) : rt.calls[j].call = call}

\* C5: the stream handler of a method that is not client-streaming receives
\* exactly one request before it builds the wrapper and invokes the service,
\* and returns the receive error without invoking the service when the receive
\* fails; the handler of a client-streaming method receives nothing itself.
C5_StreamHandlerOrder ==
    rt.fn = "StreamHandler" =>
        LET m == RtMethod
            wrappers == {out[rt.svc].srvWrappers[k].name :
                           k \in WithSrc(out[rt.svc].srvWrappers, rt.m)}
        IN  IF ~m.cs
            THEN /\ Cardinality(CallsOf("RecvMsg")) = 1
                 /\ rt.calls[1].call = "RecvMsg"
                 /\ IF rt.calls[1].err # "nil"
                    THEN /\ Len(rt.calls) = 1
                         /\ CallsOf("svc") = {}
                         /\ rt.ret = Fail(rt.calls[1].err)
                    ELSE /\ Len(rt.calls) = 3
                         /\ rt.calls[2].call = "wrap"
                         /\ rt.calls[2].on \in wrappers
                         /\ rt.calls[3].call = "svc"
                         /\ rt.calls[3].on = GoName(m)
            ELSE /\ CallsOf("RecvMsg") = {}
                 /\ Len(rt.calls) = 2
                 /\ rt.calls[1].call = "wrap"
                 /\ rt.calls[1].on \in wrappers
                 /\ rt.calls[2].call = "svc"
                 /\ rt.calls[2].on = GoName(m)

\* the handler of a server-streaming method whose one receive failed
C5_Witness ==
    /\ rt.fn = "StreamHandler"
    /\ ~RtMethod.cs /\ RtMethod.ss
    /\ rt.ret.err = "errRecv"

\* C6: CloseAndRecv, present only when serverStreaming is false, calls
\* CloseSend first and then receives exactly once; a CloseSend error is
\* returned without any receive, a receive error is returned with no message.
C6_CloseAndRecv ==
    rt.fn = "CloseAndRecv" =>
        /\ ~RtMethod.ss
        /\ rt.calls[1].call = "CloseSend"
        /\ Cardinality(CallsOf("CloseSend")) = 1
        /\ IF rt.calls[1].err # "nil"
           THEN /\ Len(rt.calls) = 1
                /\ rt.ret = Fail(rt.calls[1].err)
           ELSE /\ Len(rt.calls) = 2
                /\ rt.calls[2].call = "RecvMsg"
                /\ IF rt.calls[2].err # "nil"
                   THEN rt.ret = Fail(rt.calls[2].err)
                   ELSE rt.ret = [val |-> rt.calls[2].val, err |-> "nil"]

\* a CloseAndRecv whose CloseSend failed
C6_Witness ==
    /\ rt.fn = "CloseAndRecv"
    /\ rt.ret.err = "errClose"

\* C7 (as claimed): Send reaches the transport only for a client-streaming
\* method, CloseAndRecv exists only when serverStreaming is false, and no Send
\* reaches the transport after CloseAndRecv has been called on the wrapper.
C7_NoSendAfterCloseAndRecv ==
    /\ \A a \in 1..Len(rt.log) : rt.log[a].call = "SendMsg" => RtMethod.cs
    /\ \A a \in 1..Len(rt.log) : rt.log[a].fn = "CloseAndRecv" => ~RtMethod.ss
    /\ \A a, b \in 1..Len(rt.log) :
         rt.log[a].fn = "CloseAndRecv" /\ rt.log[b].call = "SendMsg"
            => ~(rt.log[a].op < rt.log[b].op)

\* C7 (amended): Send reaches the transport only for a client-streaming method
\* and CloseAndRecv exists only when serverStreaming is false; the wrapper
\* keeps no session state, so every Send, also one after CloseAndRecv, makes
\* exactly one SendMsg call on the transport and returns its result.
C7_SendIsForwarded ==
    /\ \A a \in 1..Len(rt.log) : rt.log[a].call = "SendMsg" => RtMethod.cs
    /\ \A a \in 1..Len(rt.log) : rt.log[a].fn = "CloseAndRecv" => ~RtMethod.ss
    /\ \A n \in 1..rt.nops :
         LET mine == {a \in 1..Len(rt.log) : rt.log[a].op = n}
         IN  (\E a \in mine : rt.log[a].fn = "Send") =>
                /\ Cardinality(mine) = 1
                /\ \A a \in mine : rt.log[a].call = "SendMsg"
    /\ rt.fn = "Send" =>
         /\ Len(rt.calls) = 1
         /\ rt.ret = Fail(rt.calls[1].err)

\* a Send made after CloseAndRecv returned
C7_Witness ==
    /\ rt.fn = "Send"
    /\ \E a, b \in 1..Len(rt.log) :
         /\ rt.log[a].fn = "CloseAndRecv"
         /\ rt.log[b].call = "SendMsg"
         /\ rt.log[a].op < rt.log[b].op

\* C8: every emitted body is fail-fast: the step that fails is its last step and
\* its error is what the body returns, with a nil result unless the failing
\* step is the service implementation, whose result and error are returned
\* unchanged; no step is made twice.  In particular a unary handler whose decode
\* fails never invokes the service, a unary client call returns the transport's
\* error with a nil response, and a failed NewStream yields no wrapper.
C8_FailFast ==
    /\ \A j \in 1..Len(rt.calls) :
         rt.calls[j].err # "nil" =>
            /\ j = Len(rt.calls)
            /\ rt.ret.err = rt.calls[j].err
            /\ rt.calls[j].call # "svc" => rt.ret.val = "nil"
    /\ \A j, k \in 1..Len(rt.calls) : j # k => rt.calls[j].call # rt.calls[k].call
    /\ rt.fn = "UnaryHandler" =>
         /\ rt.calls[1].call = "unmarshal"
         /\ IF rt.calls[1].err # "nil"
            THEN CallsOf("svc") = {}
            ELSE /\ Len(rt.calls) = 2
                 /\ rt.calls[2].call = "svc"
                 /\ rt.calls[2].on = GoName(RtMethod)
                 /\ rt.ret = [val |-> rt.calls[2].val, err |-> rt.calls[2].err]
    /\ rt.fn = "ClientCall" =>
         /\ Len(rt.calls) = 1
         /\ rt.calls[1].call = "Call"
         /\ rt.ret = [val |-> rt.calls[1].val, err |-> rt.calls[1].err]
    /\ rt.fn = "ClientNewStream" =>
         /\ rt.calls[1].call = "NewStream"
         /\ rt.calls[1].err # "nil" => CallsOf("wrap") = {} /\ rt.phase # "open"
         /\ rt.calls[1].err = "nil" => rt.phase = "open" /\ rt.ret.err = "nil"

\* a unary handler whose request decode failed
C8_Witness ==
    /\ rt.fn = "UnaryHandler"
    /\ rt.ret.err = "errUnmarshal"

====
